---- MODULE Spec2Model ----
(* A model of mestopy: Device and MeasurementChain (src/mestopy/mestopy.py). *)
(* Python values are records tagged with their Python type; list objects    *)
(* live in a heap, so that two chains holding the same list are visible.    *)
(* The unit label of a device is never used in a computation and is left    *)
(* out of the device record.                                                *)
EXTENDS Integers, Sequences, FiniteSets, TLC

\* ---------------------------------------------------------------- bounds
MaxDevices == 2
MaxInitial == 1

\* ------------------------------------------------------- Python values
PyInt(i) == [type |-> "int", int |-> i, str |-> ""]
PyFloat(i) == [type |-> "float", int |-> i, str |-> ""]
PyStr(s) == [type |-> "str", int |-> 0, str |-> s]
PyNone == [type |-> "NoneType", int |-> 0, str |-> ""]

IsNumber(v) == v.type \in {"int", "float"}

\* sampling rate of the chains (tests construct every chain at 44100 Hz)
sampling_rate == 44100
OffRate == sampling_rate + 3900

\* pyfar.Signal: time data of shape cshape + (n_samples,), kept as the list
\* of its channels in C order
Signal(time, cshape, rate, domain) ==
    [type |-> "Signal", sampling_rate |-> rate, cshape |-> cshape,
     time |-> time, domain |-> domain]
NoData == [type |-> "NoneType", sampling_rate |-> 0, cshape |-> <<>>,
           time |-> <<>>, domain |-> ""]
BadData == [type |-> "list", sampling_rate |-> 0, cshape |-> <<>>,
            time |-> <<>>, domain |-> ""]

Mono == Signal(<< <<1, 1>> >>, <<1>>, sampling_rate, "freq")
Stereo == Signal(<< <<1, 2>>, <<3, 1>> >>, <<2>>, sampling_rate, "freq")
Cube == Signal(<< <<1>>, <<1>> >>, <<2, 1>>, sampling_rate, "freq")
OffMono == Signal(<< <<1, 1>> >>, <<1>>, OffRate, "freq")

Names == {"dev1", "dev2"}
Sens == {2, 3}

\* ------------------------------------------------------------- arrays
\* a numpy array as oaconvolve sees it: its number of dimensions and, for
\* the two-dimensional ones, its rows (channels)
Array(ndim, rows) == [ndim |-> ndim, rows |-> rows]
Raised == Array(0, <<>>)

NRows(a) == Len(a.rows)
NCols(a) == Len(a.rows[1])

Max(a, b) == IF a >= b THEN a ELSE b

\* scipy.signal._init_freq_conv_axes with axes=None: every axis on which
\* both inputs are longer than 1 is convolved, the others broadcast
ConvAxes(s1, s2) == {a \in 1..2 : s1[a] # 1 /\ s2[a] # 1}

\* the index pairs (i, j) of the two inputs that contribute to output index
\* k along one axis: i + j = k for a convolved axis, broadcasting otherwise
Contrib(convolved, d1, d2, k) ==
    IF convolved
    THEN {p \in (1..d1) \X (1..d2) : p[1] + p[2] - 1 = k}
    ELSE {<<IF d1 = 1 THEN 1 ELSE k, IF d2 = 1 THEN 1 ELSE k>>}

\* the sum of the values of f over the finite set S
RECURSIVE SumSet(_, _)
SumSet(S, f) ==
    IF S = {} THEN 0
    ELSE LET x == CHOOSE y \in S : TRUE IN f[x] + SumSet(S \ {x}, f)

\* scipy.signal.oaconvolve(in1, in2) with mode="full", axes=None
oaconvolve(in1, in2) ==
    IF in1.ndim # in2.ndim THEN Raised
    ELSE
    LET s1 == <<NRows(in1), NCols(in1)>>
        s2 == <<NRows(in2), NCols(in2)>>
        axes == ConvAxes(s1, s2)
        dim(a) == IF a \in axes THEN s1[a] + s2[a] - 1 ELSE Max(s1[a], s2[a])
        term(c, n) ==
            LET rowsOf == Contrib(1 \in axes, s1[1], s2[1], c)
                colsOf == Contrib(2 \in axes, s1[2], s2[2], n)
                rowSum(p) ==
                    SumSet(colsOf, [q \in colsOf |->
                        in1.rows[p[1]][q[1]] * in2.rows[p[2]][q[2]]])
            IN SumSet(rowsOf, [p \in rowsOf |-> rowSum(p)])
    IN Array(2, [c \in 1..dim(1) |-> [n \in 1..dim(2) |-> term(c, n)]])

\* ------------------------------------------------------------- Device
Device(name, data, sens) == [name |-> name, data |-> data, sens |-> sens]

\* Device.freq: data * sens as a Signal, or the bare sensitivity
DeviceFreq(dev) ==
    IF dev.data.type # "NoneType"
    THEN [dev.data EXCEPT
            !.time = [c \in 1..Len(dev.data.time) |->
                        [n \in 1..Len(dev.data.time[c]) |->
                            dev.data.time[c][n] * dev.sens.int]]]
    ELSE dev.sens

\* ---------------------------------------------------- MeasurementChain
Chains == {"A", "B"}
ListIds == 1..Cardinality(Chains)

\* a kernel that drops the sensitivity of a device without a response
KernelUnit(dev) ==
    LET f == DeviceFreq(dev) IN
    IF f.type = "Signal" THEN Array(Len(f.cshape) + 1, f.time)
    ELSE Array(2, << <<1>> >>)

\* the kernel one device contributes in _freq
Kernel(dev) ==
    LET f == DeviceFreq(dev) IN
    IF f.type = "Signal" THEN Array(Len(f.cshape) + 1, f.time)
    ELSE Array(2, << <<f.int>> >>)

RECURSIVE FreqLoop(_, _, _)
FreqLoop(devs, i, acc) ==
    IF i > Len(devs) \/ acc = Raised THEN acc
    ELSE FreqLoop(devs, i + 1, oaconvolve(acc, Kernel(devs[i])))

\* MeasurementChain._freq: the value stored in _resp, or Raised when the
\* convolution raises
Freq(devs) ==
    IF devs = <<>> THEN PyFloat(1)
    ELSE LET acc == FreqLoop(devs, 1, Array(2, << <<1>> >>)) IN
         IF acc = Raised THEN Raised
         ELSE Signal(acc.rows, <<NRows(acc)>>, sampling_rate, "freq")

\* MeasurementChain.__init__: the check of a caller-supplied device list;
\* "" when the list is accepted (every model device is a Device)
InitError(devs) ==
    IF \E i \in 1..Len(devs) :
           /\ devs[i].data.type # "NoneType"
           /\ devs[i].data.sampling_rate # sampling_rate
    THEN "ValueMismatch"
    ELSE IF Freq(devs) = Raised THEN "ShapeMismatch"
    ELSE ""

\* MeasurementChain._find_device_index: the first index whose device has
\* the name, 0 when the loop ends without a match (ValueError)
RECURSIVE FindFrom(_, _, _)
FindFrom(devs, name, i) ==
    IF i > Len(devs) THEN 0
    ELSE IF devs[i].name = name THEN i
    ELSE FindFrom(devs, name, i + 1)

\* a lookup that returns the last match instead of the first
RECURSIVE FindBack(_, _, _)
FindBack(devs, name, i) ==
    IF i = 0 THEN 0
    ELSE IF devs[i].name = name THEN i
    ELSE FindBack(devs, name, i - 1)

FindLast(devs, name) == FindBack(devs, name, Len(devs))

_find_device_index(devs, name) == FindFrom(devs, name, 1)

\* indexing that refuses the negative indices
ListIndexZeroBased(len, num) ==
    IF 0 <= num /\ num < len THEN num + 1 ELSE 0

\* Python list indexing: the (1-based) position index num denotes in a list
\* of length len, 0 when it raises IndexError
ListIndex(len, num) ==
    IF 0 <= num /\ num < len THEN num + 1
    ELSE IF 0 - len <= num /\ num < 0 THEN len + num + 1
    ELSE 0

\* a pop that takes the first element whatever the position
PopFirst(devs, pos) == [k \in 1..(Len(devs) - 1) |-> devs[k + 1]]

\* list.pop(num) on a valid position
Pop(devs, pos) ==
    [k \in 1..(Len(devs) - 1) |-> IF k < pos THEN devs[k] ELSE devs[k + 1]]

\* MeasurementChain.list_devices
list_devices(devs) == [k \in 1..Len(devs) |-> devs[k].name.str]

\* the validation of add_device and of the Device constructor it calls,
\* in the order of the code; "" when the device is appended
AddError(devs, name, data, sens) ==
    IF data.type \notin {"Signal", "NoneType"} THEN "InvalidArgument"
    ELSE IF /\ devs # <<>>
            /\ data.type # "NoneType"
            /\ sampling_rate # data.sampling_rate
         THEN "ValueMismatch"
    ELSE IF name.type # "str" THEN "InvalidArgument"
    ELSE IF ~IsNumber(sens) THEN "InvalidArgument"
    ELSE ""

\* the position remove_device and device_freq act on and the error raised
\* while the selector is resolved
Resolve(devs, num) ==
    IF num.type = "int"
    THEN LET pos == ListIndex(Len(devs), num.int) IN
         [pos |-> pos, err |-> IF pos = 0 THEN "IndexOutOfRange" ELSE ""]
    ELSE IF num.type = "str"
    THEN LET pos == _find_device_index(devs, num) IN
         [pos |-> pos, err |-> IF pos = 0 THEN "NotFound" ELSE ""]
    ELSE [pos |-> 0, err |-> "InvalidArgument"]

\* the new list object of reset_devices: a list id outside held, the lists
\* the other chains hold
FreshList(held) ==
    CHOOSE l \in ListIds \ held : \A m \in ListIds \ held : l <= m

\* ------------------------------------------------------------- inputs
\* the devices a caller adds: pure gains of two names and two sensitivities,
\* one- and two-channel filters, a filter with a two-dimensional channel
\* shape and a filter at another sampling rate
ScalarDevices == {Device(PyStr(n), NoData, PyInt(s)) : n \in Names, s \in Sens}
FilterDevices ==
    {Device(PyStr(n), d, PyInt(2)) : n \in Names, d \in {Mono, Stereo}}
        \cup {Device(PyStr("dev1"), Cube, PyInt(2)),
              Device(PyStr("dev1"), OffMono, PyInt(2))}
Devices == ScalarDevices \cup FilterDevices

AddArgs ==
    Devices \cup {Device(PyInt(0), NoData, PyInt(2)),
                  Device(PyStr("dev1"), BadData, PyInt(2)),
                  Device(PyStr("dev1"), NoData, PyStr("x"))}

Selectors ==
    {PyInt(i) : i \in (0 - MaxDevices - 1)..MaxDevices}
        \cup {PyStr(n) : n \in Names} \cup {PyNone}

\* the inputs of the two-chain specification
TwoDevices == {Device(PyStr(n), NoData, PyInt(2)) : n \in Names}
TwoSelectors == {PyInt(0)} \cup {PyStr(n) : n \in Names}

RECURSIVE SeqsUpTo(_, _)
SeqsUpTo(S, n) ==
    IF n = 0 THEN {<<>>}
    ELSE LET shorter == SeqsUpTo(S, n - 1) IN
         shorter \cup {Append(q, x) : q \in shorter, x \in S}

\* the device lists a caller can construct a chain from
InitialLists == {l \in SeqsUpTo(Devices, MaxInitial) : InitError(l) = ""}

\* -------------------------------------------------------------- state
\* heap: the list objects; devices[c]: the list chain c holds in
\* self.devices; resp[c]: self._resp; call, outcome, ret: the last call, how
\* it ended and what device_freq returned; snap: what list_devices() and
\* freq were before the last add_device(name, sens=s) and whether freq was
\* up to date then, kept while remove_device(name) follows (the round trip)
VARIABLES heap, devices, resp, call, outcome, ret, snap

vars == <<heap, devices, resp, call, outcome, ret, snap>>

Call(c, op, dev, num) ==
    [chain |-> c, op |-> op, name |-> dev.name, data |-> dev.data,
     sens |-> dev.sens, num |-> num]
NoDevice == Device(PyNone, NoData, PyNone)
NoSnap == [stage |-> "none", chain |-> "", names |-> <<>>,
           resp |-> PyNone, fresh |-> TRUE, name |-> ""]

\* one chain constructed from a caller's list (or from nothing), the other
\* one with the default
Init ==
    \E l \in InitialLists :
        /\ heap = [i \in ListIds |-> IF i = 1 THEN l ELSE <<>>]
        /\ devices = [c \in Chains |-> IF c = "A" THEN 1 ELSE 2]
        /\ resp = [c \in Chains |-> IF c = "A" THEN Freq(l) ELSE Freq(<<>>)]
        /\ call = Call("A", "__init__", NoDevice, PyNone)
        /\ outcome = "ok"
        /\ ret = PyNone
        /\ snap = NoSnap

\* two chains constructed from one caller-supplied list, or each from its
\* own list
InitTwo ==
    \E l \in {q \in InitialLists : \A i \in 1..Len(q) : q[i] \in TwoDevices},
       shared \in BOOLEAN :
        /\ heap = [i \in ListIds |-> l]
        /\ devices = [c \in Chains |->
                        IF shared \/ c = "A" THEN 1 ELSE 2]
        /\ resp = [c \in Chains |-> Freq(l)]
        /\ call = Call("B", "__init__", NoDevice, PyNone)
        /\ outcome = "ok"
        /\ ret = PyNone
        /\ snap = NoSnap

\* a mutating method that returns without calling _freq
RunFreqSkipped(c, devs) ==
    /\ resp' = resp
    /\ outcome' = "ok"

\* self._freq() at the end of a mutating method: _resp is replaced, or the
\* exception of oaconvolve leaves it as it was
RunFreq(c, devs) ==
    IF Freq(devs) = Raised
    THEN /\ resp' = resp
         /\ outcome' = "ShapeMismatch"
    ELSE /\ resp' = [resp EXCEPT ![c] = Freq(devs)]
         /\ outcome' = "ok"

\* MeasurementChain.add_device(name, data, sens)
AddDevice(c, dev) ==
    LET devs == heap[devices[c]]
        err == AddError(devs, dev.name, dev.data, dev.sens)
    IN
    /\ err # "" \/ Len(devs) < MaxDevices
    /\ call' = Call(c, "add_device", dev, PyNone)
    /\ ret' = PyNone
    /\ devices' = devices
    /\ IF err # ""
       THEN /\ outcome' = err
            /\ UNCHANGED <<heap, resp>>
            /\ snap' = NoSnap
       ELSE /\ heap' = [heap EXCEPT ![devices[c]] = Append(devs, dev)]
            /\ RunFreq(c, Append(devs, dev))
            /\ snap' = IF dev.data = NoData
                       THEN [stage |-> "added", chain |-> c,
                             names |-> list_devices(devs),
                             resp |-> resp[c],
                             fresh |-> Freq(devs) \in {resp[c], Raised},
                             name |-> dev.name.str]
                       ELSE NoSnap

\* MeasurementChain.remove_device(num); by name it calls itself with the
\* index found, so that _freq runs twice over the same list
RemoveDevice(c, num) ==
    LET devs == heap[devices[c]]
        r == Resolve(devs, num)
    IN
    /\ call' = Call(c, "remove_device", NoDevice, num)
    /\ ret' = PyNone
    /\ devices' = devices
    /\ IF r.err # ""
       THEN /\ outcome' = r.err
            /\ UNCHANGED <<heap, resp>>
       ELSE /\ heap' = [heap EXCEPT ![devices[c]] = Pop(devs, r.pos)]
            /\ RunFreq(c, Pop(devs, r.pos))
    /\ snap' = IF /\ snap.stage = "added"
                  /\ snap.chain = c
                  /\ num.type = "str"
                  /\ num.str = snap.name
               THEN [snap EXCEPT !.stage = "removed"]
               ELSE NoSnap

\* MeasurementChain.reset_devices()
ResetDevices(c) ==
    /\ call' = Call(c, "reset_devices", NoDevice, PyNone)
    /\ ret' = PyNone
    /\ LET new == FreshList({devices[d] : d \in Chains \ {c}}) IN
        /\ devices' = [devices EXCEPT ![c] = new]
        /\ heap' = [heap EXCEPT ![new] = <<>>]
    /\ RunFreq(c, <<>>)
    /\ snap' = NoSnap

\* MeasurementChain.device_freq(num)
device_freq(c, num) ==
    LET devs == heap[devices[c]]
        r == Resolve(devs, num)
    IN
    /\ call' = Call(c, "device_freq", NoDevice, num)
    /\ outcome' = IF r.err # "" THEN r.err ELSE "ok"
    /\ ret' = IF r.err # "" THEN PyNone ELSE DeviceFreq(devs[r.pos])
    /\ snap' = NoSnap
    /\ UNCHANGED <<heap, devices, resp>>

Next ==
    \/ \E dev \in AddArgs : AddDevice("A", dev)
    \/ \E num \in Selectors : RemoveDevice("A", num)
    \/ ResetDevices("A")
    \/ \E num \in Selectors : device_freq("A", num)

Spec == Init /\ [][Next]_vars

NextTwo ==
    \/ \E c \in Chains, dev \in TwoDevices : AddDevice(c, dev)
    \/ \E c \in Chains, num \in TwoSelectors : RemoveDevice(c, num)
    \/ \E c \in Chains : ResetDevices(c)
    \/ \E c \in Chains, num \in TwoSelectors : device_freq(c, num)

SpecTwo == InitTwo /\ [][NextTwo]_vars
\* ===================================================================
\* Properties
\* ===================================================================
Mutators == {"__init__", "add_device", "remove_device", "reset_devices"}

\* the device list of chain c
Cur(c) == heap[devices[c]]

\* the device list of chain c after the step
CurNext(c) == heap'[devices'[c]]

\* a list without its element at position pos
RemoveAt(devs, pos) ==
    SubSeq(devs, 1, pos - 1) \o SubSeq(devs, pos + 1, Len(devs))

RECURSIVE Product(_)
Product(devs) ==
    IF devs = <<>> THEN 1 ELSE Head(devs).sens.int * Product(Tail(devs))

Orderings(n) ==
    {f \in [1..n -> 1..n] : \A i, j \in 1..n : f[i] = f[j] => i = j}

ScalarOnly(devs) ==
    /\ devs # <<>>
    /\ \A i \in 1..Len(devs) : devs[i].data.type = "NoneType"

\* C1: when a constructor, add_device, remove_device or reset_devices call
\* returns without an exception, the _resp of the chain it was called on
\* is the cascade computed from the list the chain holds at that moment.
C1_CacheConsistent ==
    (call.op \in Mutators /\ outcome = "ok")
        => resp[call.chain] = Freq(Cur(call.chain))

C1_Witness ==
    /\ call.op = "remove_device"
    /\ outcome = "ok"
    /\ Cur("A") # <<>>
    /\ resp["A"].type = "Signal"
    /\ Len(resp["A"].time[1]) > 1

\* C2: in every reachable state _resp is the bare scalar 1.0 exactly when
\* the device list is empty.
C2_TypeVariance ==
    (resp["A"] = PyFloat(1)) <=> (Cur("A") = <<>>)

\* C3: a call that ends with an exception leaves the device list and the
\* cached response as they were before the call.
C3_NoPartialMutation ==
    [][outcome' # "ok"
          => /\ CurNext(call'.chain) = Cur(call'.chain)
             /\ devices' = devices
             /\ resp' = resp]_vars

\* C4: add_device with a response at another sampling rate is rejected with
\* ValueMismatch in every chain state and leaves the devices unchanged, so
\* that every response in the chain has the chain's sampling rate.
C4_RateRejected ==
    /\ [][(/\ call'.op = "add_device"
           /\ call'.data.type = "Signal"
           /\ call'.data.sampling_rate # sampling_rate)
              => (outcome' = "ValueMismatch" /\ heap' = heap)]_vars
    /\ [](\A i \in 1..Len(Cur("A")) :
              Cur("A")[i].data.type = "Signal"
                  => Cur("A")[i].data.sampling_rate = sampling_rate)

\* C5 as stated: add_device(n, sens=s) followed by remove_device(n) restores
\* list_devices() and freq in every state, a device named n being present
\* before or not.
C5_RoundTripAlways ==
    snap.stage = "removed"
        => /\ list_devices(Cur(snap.chain)) = snap.names
           /\ resp[snap.chain] = snap.resp

\* C5 as amended: when no device of the chain is named n, add_device(n,
\* sens=s) followed by remove_device(n) restores list_devices(), and freq is
\* what it was before the add if it was up to date then.
C5_RoundTrip ==
    (/\ snap.stage = "removed"
     /\ \A i \in 1..Len(snap.names) : snap.names[i] # snap.name)
        => /\ list_devices(Cur(snap.chain)) = snap.names
           /\ snap.fresh => resp[snap.chain] = snap.resp

C5_Witness ==
    /\ snap.stage = "removed"
    /\ outcome = "ok"
    /\ snap.names # <<>>
    /\ \A i \in 1..Len(snap.names) : snap.names[i] # snap.name
    /\ snap.fresh
    /\ snap.resp.type = "Signal"

\* what it is for remove_device or device_freq to act on position pos
ActsOn(pos) ==
    LET c == call'.chain IN
    IF call'.op = "remove_device"
    THEN /\ CurNext(c) = RemoveAt(Cur(c), pos)
         /\ outcome' \in {"ok", "ShapeMismatch"}
    ELSE /\ ret' = DeviceFreq(Cur(c)[pos])
         /\ outcome' = "ok"
         /\ heap' = heap

IndexFails ==
    /\ outcome' = "IndexOutOfRange"
    /\ ret' = PyNone
    /\ heap' = heap
    /\ resp' = resp

ByIndex ==
    /\ call'.op \in {"remove_device", "device_freq"}
    /\ call'.num.type = "int"

\* C6 as stated: an integer selector i acts on position i when
\* 0 <= i < len(devices); every other integer, the negative ones included,
\* fails with IndexOutOfRange and removes or returns nothing.
C6_ZeroBasedOnly ==
    [][ByIndex =>
          LET i == call'.num.int
              len == Len(Cur(call'.chain))
          IN IF 0 <= i /\ i < len THEN ActsOn(i + 1) ELSE IndexFails]_vars

\* C6 as amended: an integer selector i acts on position i when
\* 0 <= i < len(devices) and on position len(devices) + i when
\* -len(devices) <= i < 0; every other integer fails with IndexOutOfRange
\* and removes or returns nothing.
C6_IndexSelector ==
    [][ByIndex =>
          LET i == call'.num.int
              len == Len(Cur(call'.chain))
          IN IF 0 <= i /\ i < len THEN ActsOn(i + 1)
             ELSE IF 0 - len <= i /\ i < 0 THEN ActsOn(len + i + 1)
             ELSE IndexFails]_vars

C6_Witness ==
    /\ call.op = "remove_device"
    /\ call.num.type = "int"
    /\ call.num.int < 0
    /\ outcome = "ok"
    /\ Cur("A") # <<>>

C8_FirstMatchRemoval ==
    [][(call'.op = "remove_device" /\ call'.num.type = "str") =>
          LET devs == Cur(call'.chain)
              named == {i \in 1..Len(devs) : devs[i].name = call'.num}
          IN IF named = {}
             THEN /\ outcome' = "NotFound"
                  /\ heap' = heap
                  /\ resp' = resp
             ELSE \E i \in named :
                      /\ \A j \in named : i <= j
                      /\ CurNext(call'.chain) = RemoveAt(devs, i)]_vars

C8_Witness ==
    /\ call.op = "remove_device"
    /\ call.num.type = "str"
    /\ outcome = "ok"
    /\ \E i \in 1..Len(Cur("A")) : Cur("A")[i].name = call.num

\* the sum of n - 1 over the sample counts n of the responses
RECURSIVE GrowthOf(_)
GrowthOf(devs) ==
    IF devs = <<>> THEN 0
    ELSE Len(Head(devs).data.time[1]) - 1 + GrowthOf(Tail(devs))

\* C9: filter-bearing stages combine channel by channel: with channel counts
\* that broadcast, the cascade has the broadcast channel count and
\* 1 + sum(len(stage) - 1) samples; otherwise the composition fails.
C9_ChannelWise ==
    LET devs == Cur("A")
        chans == {devs[i].data.cshape[1] : i \in 1..Len(devs)}
    IN (/\ devs # <<>>
        /\ \A i \in 1..Len(devs) :
               devs[i].data.type = "Signal" /\ Len(devs[i].data.cshape) = 1)
          => IF Cardinality(chans \ {1}) <= 1
             THEN /\ Freq(devs) # Raised
                  /\ \A n \in chans : Freq(devs).cshape[1] >= n
                  /\ Freq(devs).cshape[1] \in chans
                  /\ Len(Freq(devs).time[1]) = 1 + GrowthOf(devs)
             ELSE Freq(devs) = Raised

\* C10: a call on one chain leaves the device list and the cached response
\* of every other chain unchanged.
C10_ExclusiveOwnership ==
    [][\A c \in Chains \ {call'.chain} :
           /\ CurNext(c) = Cur(c)
           /\ resp'[c] = resp[c]]_vars
====
